---- MODULE Spec2Model ----
(***************************************************************************)
(* Model of the build step of the composer-install buildpack (build.go).  *)
(* One build invocation is the function returned by Build; it runs its    *)
(* phases one after the other.  Consecutive builds share only what the    *)
(* layer store keeps: the composer-packages layer's metadata, flags and   *)
(* vendor directory.                                                       *)
(***************************************************************************)
EXTENDS Naturals, Sequences, FiniteSets, TLC

\* ------------------------------------------------------------------ bounds
MaxBuilds == 2
\* How many lines of check-platform-reqs output are enumerated.
MaxLines == 2

\* --------------------------------------------------------- program constants
runComposerInstallOnCacheEnv == "BP_RUN_COMPOSER_INSTALL"
opensslExtension == "openssl"

\* ------------------------------------------------------------ input domains
Lockfiles == {"L1", "L2"}
Stacks == {"S1", "S2"}
Absent == "<unset>"
OverrideValues == {Absent, "true", "false", "1", "maybe"}
ExecOutcomes == {"ok", "exit1", "exit2", "notExitError"}

\* Calculator.Sum: a digest of the lockfile's bytes.
Sum(lock) == CASE lock = "L1" -> "sha256:aa11"
               [] lock = "L2" -> "sha256:bb22"
               [] OTHER -> "sha256:0000"

\* strconv.ParseBool
ParseBoolTrue == {"1", "t", "T", "TRUE", "true", "True"}
ParseBoolFalse == {"0", "f", "F", "FALSE", "false", "False"}
ParseBoolOk(s) == s \in ParseBoolTrue \cup ParseBoolFalse
\* variant: the value of the variable is not looked at
ParseBoolAlwaysTrue(s) == TRUE
\* variant: the value of the variable is read the wrong way round
ParseBoolInverted(s) == s \notin ParseBoolTrue
ParseBool(s) == s \in ParseBoolTrue

\* ------------------------------------------------------ metadata (untyped map)
\* A value of map[string]interface{}: a dynamic type and a printed value.
Str(s) == [t |-> "string", v |-> s]
NonStr(s) == [t |-> "int64", v |-> s]
StackKey == "stack"
ShaKey == "composer-lock-sha"
OtherKey == "built_at"
NoMetadata == [k \in {} |-> Str("")]
MapHas(m, k) == k \in DOMAIN m
\* v, ok := m[k].(string)
AssertStringOk(m, k) == MapHas(m, k) /\ m[k].t = "string"
\* m[k].(string) in its one-value form panics unless the value is a string
AssertStringPanics(m, k) == ~(m[k].t = "string")

\* variant: the two values are stored under each other's key
StampedMetadataSwapped(stack, checksum) ==
    (StackKey :> Str(checksum)) @@ (ShaKey :> Str(stack))

\* The metadata literal of the fresh-build path.
StampedMetadata(stack, checksum) ==
    (StackKey :> Str(stack)) @@ (ShaKey :> Str(checksum))

\* ------------------------------------------------------------- directories
NoDir == [lock |-> "none", by |-> 0]
UserVendored == [lock |-> "user", by |-> 0]
\* What `composer install` leaves in the dependency directory.
Installed(lock, n) == [lock |-> lock, by |-> n]

\* packit.Layer{} and a layer after Reset()
EmptyLayer == [Metadata |-> NoMetadata, Launch |-> FALSE, Build |-> FALSE, Cache |-> FALSE]

\* ------------------------------------------------------------------- paths
ComposerPackagesLayerPath == "/layers/composer-packages"
ComposerGlobalLayerPath == "/layers/composer-global"
WorkingDir == "/workspace"
AmbientPath == "<ambient PATH>"
AmbientHome == "<ambient COMPOSER_HOME>"
ComposerPhpIniFile == "/layers/composer-php-ini/composer-php.ini"
PackagesHome == "/layers/composer-packages/.composer"
GlobalBin == "/layers/composer-global/vendor/bin"

\* ------------------------------------------------------------------- state
VARIABLES
    pc,          \* position of the running build inside Build
    buildNo,     \* number of builds started so far
    in,          \* inputs of the running build: context, environment, workspace
    store,       \* what the layer store keeps of composer-packages between builds
    layer,       \* composerPackagesLayer (the in-memory record)
    layerVendor, \* layerVendorDir on disk
    wsVendor,    \* workspaceVendorDir on disk
    checksum,    \* composerLockChecksum
    route,       \* which branch of runComposerInstall was taken
    runOnCache,  \* runComposerInstallOnCache
    path,        \* the search path handed to the sub-commands
    phpIni,      \* composerPhpIniPath, once the file is written
    extFile,     \* .php.ini.d/composer-extensions.ini: the extensions it enables
    trace,       \* side effects of this build, in order
    result,      \* what Build returned
    buffer,      \* the lines check-platform-reqs printed, as captured
    last         \* the latest build that succeeded: its inputs and its layer

vars == <<pc, buildNo, in, store, layer, layerVendor, wsVendor, checksum,
          route, runOnCache, path, phpIni, extFile, trace, result, buffer, last>>

NoResult == [status |-> "running", err |-> "", layers |-> <<>>]
Failure(e) == [status |-> "error", err |-> e, layers |-> <<>>]
Panic == [status |-> "panic", err |-> "interface conversion", layers |-> <<>>]
Success(l) == [status |-> "ok", err |-> "", layers |-> <<l>>]

\* variant: PHPRC is not set for the sub-command
ExecutionWithoutPhprc(cmd, dir, home, outcome) ==
    [op |-> "exec", cmd |-> cmd, dir |-> dir, home |-> home,
     phprc |-> "", path |-> path, outcome |-> outcome]

\* pexec.Execution as handed to Executable.Execute, and how it ended.
Execution(cmd, dir, home, outcome) ==
    [op |-> "exec", cmd |-> cmd, dir |-> dir, home |-> home,
     phprc |-> phpIni, path |-> path, outcome |-> outcome]
\* Layer.Reset() of the named layer; a file written
ResetOf(name) ==
    [op |-> "reset", cmd |-> name, dir |-> "", home |-> "",
     phprc |-> "", path |-> <<>>, outcome |-> "ok"]
WriteOf(file) ==
    [op |-> "write", cmd |-> file, dir |-> "", home |-> "",
     phprc |-> "", path |-> <<>>, outcome |-> "ok"]
\* Layers.Get of the named layer; fs.Copy into the named directory
GetOf(name) ==
    [op |-> "get", cmd |-> name, dir |-> "", home |-> "",
     phprc |-> "", path |-> <<>>, outcome |-> "ok"]
CopyOf(dst, outcome) ==
    [op |-> "copy", cmd |-> dst, dir |-> "", home |-> "",
     phprc |-> "", path |-> <<>>, outcome |-> outcome]

IsExec(e) == e.op = "exec"
Calls == SelectSeq(trace, IsExec)
IsCmd(e, cmd) == e.op = "exec" /\ e.cmd = cmd
CountCmd(cmd) == Cardinality({i \in 1..Len(trace) : IsCmd(trace[i], cmd)})
CountReset(name) ==
    Cardinality({i \in 1..Len(trace) : trace[i].op = "reset" /\ trace[i].cmd = name})
CountGet(name) ==
    Cardinality({i \in 1..Len(trace) : trace[i].op = "get" /\ trace[i].cmd = name})

EmptyStore ==
    [Metadata |-> NoMetadata, Launch |-> FALSE, Build |-> FALSE, Cache |-> FALSE,
     vendor |-> NoDir]

\* Layer stores a first build can meet: none, one written by this code, or
\* one whose metadata was written by something else.
InitMetadata ==
    { NoMetadata,
      StampedMetadata("S1", Sum("L1")),
      (StackKey :> Str("S1")),
      (ShaKey :> Str(Sum("L1"))),
      (StackKey :> NonStr("7")) @@ (ShaKey :> Str(Sum("L1"))),
      (StackKey :> Str("S1")) @@ (ShaKey :> NonStr("7")),
      (StackKey :> NonStr("7")),
      StampedMetadata("S1", Sum("L1")) @@ (OtherKey :> Str("then")) }
InitStores ==
    { [Metadata |-> m, Launch |-> FALSE, Build |-> FALSE, Cache |-> (m # NoMetadata),
       vendor |-> IF m = NoMetadata THEN NoDir ELSE Installed("L1", 0)]
      : m \in InitMetadata }

Inputs ==
    [lock : Lockfiles, Stack : Stacks, launch : BOOLEAN, build : BOOLEAN,
     override : OverrideValues, global : BOOLEAN, vendored : BOOLEAN]
NoInput == [lock |-> "L1", Stack |-> "S1", launch |-> FALSE, build |-> FALSE,
            override |-> Absent, global |-> FALSE, vendored |-> FALSE]

NoLast == [no |-> 0, lock |-> "none", Stack |-> "none", route |-> "none",
           Metadata |-> NoMetadata, vendor |-> NoDir]

Init ==
    /\ pc = "idle"
    /\ buildNo = 0
    /\ in = NoInput
    /\ store \in InitStores
    /\ layer = EmptyLayer
    /\ layerVendor = NoDir
    /\ wsVendor = NoDir
    /\ checksum = ""
    /\ route = "none"
    /\ runOnCache = TRUE
    /\ path = <<AmbientPath>>
    /\ phpIni = ""
    /\ extFile = <<>>
    /\ trace = <<>>
    /\ result = NoResult
    /\ buffer = <<>>
    /\ last = NoLast

\* variant: the layer built so far is returned along with the error
FailReturningLayer(e) ==
    /\ pc' = "returned"
    /\ result' = [status |-> "error", err |-> e, layers |-> <<layer>>]

\* variant: the error is noted and the diagnostics are run all the same
FailContinuing(e) ==
    /\ pc' = "checkPlatformReqs"
    /\ result' = Failure(e)

\* Build returned an error: packit.BuildResult{}, err
Fail(e) ==
    /\ pc' = "returned"
    /\ result' = Failure(e)

\* A build invocation starts: the platform hands over the workspace, the
\* environment and the layers directory as the store restored it.
Start(inputs) ==
    /\ pc = "idle"
    /\ buildNo < MaxBuilds
    /\ buildNo' = buildNo + 1
    /\ in' \in inputs
    /\ pc' = "writeIni"
    /\ layer' = EmptyLayer
    /\ layerVendor' = store.vendor
    /\ wsVendor' = IF in'.vendored THEN UserVendored ELSE NoDir
    /\ checksum' = ""
    /\ route' = "none"
    /\ runOnCache' = TRUE
    /\ path' = <<AmbientPath>>
    /\ phpIni' = ""
    /\ extFile' = <<>>
    /\ trace' = <<>>
    /\ result' = NoResult
    /\ buffer' = <<>>
    /\ UNCHANGED <<store, last>>

StartBuild == Start(Inputs)

\* writeComposerPhpIni, and Build's check of its error
WriteComposerPhpIni ==
    /\ pc = "writeIni"
    /\ \E ok \in BOOLEAN :
         IF ok
         THEN /\ phpIni' = ComposerPhpIniFile
              /\ trace' = trace \o <<GetOf("composer-php-ini"), ResetOf("composer-php-ini"),
                                     WriteOf(ComposerPhpIniFile)>>
              /\ pc' = "global"
              /\ UNCHANGED result
         ELSE /\ Fail("write composer-php.ini")
              /\ UNCHANGED <<phpIni, trace>>
    /\ UNCHANGED <<buildNo, in, store, layer, layerVendor, wsVendor, checksum,
                   route, runOnCache, path, extFile, last, buffer>>

\* variant: global packages are installed whether asked for or not
GlobalRequiredAlways(input) == TRUE

\* os.LookupEnv(BP_COMPOSER_INSTALL_GLOBAL) found the variable
GlobalRequired(input) == input.global

\* variant: the directory is not put on the search path
PrefixPathDropped(bin, p) == p

\* Build: the global layer's vendor/bin is put in front of the search path
PrefixPath(bin, p) == <<bin>> \o p

\* runComposerGlobalIfRequired, and Build's use of what it returns; `next`
\* is the phase Build goes on with.
ComposerGlobal(next) ==
    /\ pc = "global"
    /\ IF ~GlobalRequired(in)
       THEN /\ pc' = next
            /\ UNCHANGED <<path, trace, result>>
       ELSE \E io \in {"ok", "getError", "resetError"}, outcome \in ExecOutcomes :
              CASE io = "getError" ->
                     /\ trace' = trace \o <<GetOf("composer-global")>>
                     /\ Fail("global layers.Get")
                     /\ UNCHANGED path
                [] io = "resetError" ->
                     /\ trace' = trace \o <<GetOf("composer-global")>>
                     /\ Fail("global layer.Reset")
                     /\ UNCHANGED path
                [] OTHER ->
                     /\ trace' = trace \o <<GetOf("composer-global"),
                                            ResetOf("composer-global"),
                                            Execution("global", ComposerGlobalLayerPath,
                                                      ComposerGlobalLayerPath, outcome)>>
                     /\ IF outcome = "ok"
                        THEN /\ path' = PrefixPath(GlobalBin, path)
                             /\ pc' = next
                             /\ UNCHANGED result
                        ELSE /\ Fail("composer global require")
                             /\ UNCHANGED path
    /\ UNCHANGED <<buildNo, in, store, layer, layerVendor, wsVendor, checksum,
                   route, runOnCache, phpIni, extFile, last, buffer>>

\* variant: Build goes on with the diagnostics
RunComposerGlobalThenDiagnostics == ComposerGlobal("checkPlatformReqs")

\* Build: runComposerGlobalIfRequired, then runComposerInstall
RunComposerGlobalIfRequired == ComposerGlobal("install")

\* variant: the fingerprint is not compared
CacheHitOnStackAlone(metadata, sum, stack) ==
    AssertStringOk(metadata, StackKey) /\ metadata[StackKey].v = stack

\* variant: a dependency directory found in the workspace forces a fresh build
CacheHitUnlessVendored(metadata, sum, stack) ==
    /\ ~in.vendored
    /\ AssertStringOk(metadata, ShaKey) /\ metadata[ShaKey].v = sum
    /\ AssertStringOk(metadata, StackKey) /\ metadata[StackKey].v = stack

\* The cache-hit condition of runComposerInstall
CacheHit(metadata, sum, stack) ==
    /\ AssertStringOk(metadata, ShaKey) /\ metadata[ShaKey].v = sum
    /\ AssertStringOk(metadata, StackKey) /\ metadata[StackKey].v = stack

\* variant: the layer is reset on the cache-hit branch too
HitLayerAfterReset(stored, launch, build) ==
    [EmptyLayer EXCEPT !.Launch = launch, !.Build = build, !.Cache = TRUE]

\* variant: the layer types are left as the populating build set them
HitLayerKeepingTypes(stored, launch, build) ==
    [stored EXCEPT !.Cache = TRUE]

\* cache-hit branch: the layer as read, with the layer types of this build
HitLayer(stored, launch, build) ==
    [stored EXCEPT !.Launch = launch, !.Build = build, !.Cache = TRUE]

\* variant: the layer is cached only when it is a build layer
FreshLayerCachedForBuild(launch, build, stack, sum) ==
    [EmptyLayer EXCEPT !.Launch = launch, !.Build = build, !.Cache = build,
                       !.Metadata = StampedMetadata(stack, sum)]

\* fresh-build branch: the layer after Reset, with the layer types of this
\* build and the new metadata
FreshLayer(launch, build, stack, sum) ==
    [EmptyLayer EXCEPT !.Launch = launch, !.Build = build, !.Cache = TRUE,
                       !.Metadata = StampedMetadata(stack, sum)]

\* runComposerInstall up to the decision: merge of the plan's layer types,
\* Layers.Get, the checksum, the read of the stored metadata, the branch
\* taken; on the cache-hit branch also the layer types.
Decide ==
    /\ pc = "install"
    /\ trace' = trace \o <<GetOf("composer-packages")>>
    /\ \E got \in {"ok", "getError", "sumError"} :
         LET stored == [Metadata |-> store.Metadata, Launch |-> store.Launch,
                        Build |-> store.Build, Cache |-> store.Cache]
             sum == Sum(in.lock)
         IN  CASE got = "getError" ->
                    /\ Fail("layers.Get")
                    /\ UNCHANGED <<layer, checksum, route>>
               [] got = "sumError" ->
                    /\ Fail("calculator.Sum")
                    /\ layer' = stored
                    /\ UNCHANGED <<checksum, route>>
               [] got = "ok" /\ MapHas(stored.Metadata, StackKey)
                             /\ AssertStringPanics(stored.Metadata, StackKey) ->
                    /\ pc' = "returned"
                    /\ result' = Panic
                    /\ layer' = stored
                    /\ checksum' = sum
                    /\ route' = "panic"
               [] OTHER ->
                    /\ checksum' = sum
                    /\ UNCHANGED result
                    /\ IF CacheHit(stored.Metadata, sum, in.Stack)
                       THEN /\ route' = "hit"
                            /\ layer' = HitLayer(stored, in.launch, in.build)
                            /\ pc' = "hitParse"
                       ELSE /\ route' = "fresh"
                            /\ layer' = stored
                            /\ pc' = "freshReset"
    /\ UNCHANGED <<buildNo, in, store, layerVendor, wsVendor, runOnCache, path,
                   phpIni, extFile, last, buffer>>

\* cache-hit branch: the read of BP_RUN_COMPOSER_INSTALL
HitParseOverride ==
    /\ pc = "hitParse"
    /\ IF in.override = Absent
       THEN /\ runOnCache' = TRUE
            /\ pc' = "hitInstall"
            /\ UNCHANGED result
       ELSE IF ParseBoolOk(in.override)
            THEN /\ runOnCache' = ParseBool(in.override)
                 /\ pc' = "hitInstall"
                 /\ UNCHANGED result
            ELSE /\ Fail("error when parsing env var")
                 /\ UNCHANGED runOnCache
    /\ UNCHANGED <<buildNo, in, store, layer, layerVendor, wsVendor, checksum,
                   route, path, phpIni, extFile, trace, last, buffer>>

\* variant: the autoloader suffix is configured before the re-run install too
HitInstallAfterConfig ==
    /\ pc = "hitInstall"
    /\ IF ~runOnCache
       THEN /\ pc' = "hitCopy"
            /\ UNCHANGED <<wsVendor, trace, result>>
       ELSE \E outcome \in ExecOutcomes :
              /\ trace' = trace \o <<Execution("config", ComposerPackagesLayerPath,
                                               PackagesHome, "ok"),
                                     Execution("install", WorkingDir, PackagesHome, outcome)>>
              /\ IF outcome = "ok"
                 THEN /\ wsVendor' = Installed(in.lock, buildNo)
                      /\ pc' = "hitCopy"
                      /\ UNCHANGED result
                 ELSE /\ Fail("composer install")
                      /\ UNCHANGED wsVendor
    /\ UNCHANGED <<buildNo, in, store, layer, layerVendor, checksum, route,
                   runOnCache, path, phpIni, extFile, last, buffer>>

\* cache-hit branch: `composer install` on the cached files, if asked for
HitInstall ==
    /\ pc = "hitInstall"
    /\ IF ~runOnCache
       THEN /\ pc' = "hitCopy"
            /\ UNCHANGED <<wsVendor, trace, result>>
       ELSE \E outcome \in ExecOutcomes :
              /\ trace' = trace \o <<Execution("install", WorkingDir, PackagesHome, outcome)>>
              /\ IF outcome = "ok"
                 THEN /\ wsVendor' = Installed(in.lock, buildNo)
                      /\ pc' = "hitCopy"
                      /\ UNCHANGED result
                 ELSE /\ Fail("composer install")
                      /\ UNCHANGED wsVendor
    /\ UNCHANGED <<buildNo, in, store, layer, layerVendor, checksum, route,
                   runOnCache, path, phpIni, extFile, last, buffer>>

\* variant: nothing is copied
FsCopyNothing(src, dst) == dst

\* fs.Copy(src, dst): what is at the destination afterwards
FsCopy(src, dst) == src

\* variant: a dependency directory found in the workspace is kept
ReplaceVendorIfAbsent(cached, existing) ==
    IF existing # NoDir THEN existing ELSE FsCopy(cached, existing)

\* cache-hit branch: a dependency directory found in the workspace is removed,
\* then the layer's is copied there
ReplaceVendor(cached, existing) ==
    LET removed == NoDir
    IN  FsCopy(cached, IF existing # NoDir THEN removed ELSE existing)

\* variant: the copy goes the way it goes on the fresh-build branch
HitCopyIntoLayer ==
    /\ pc = "hitCopy"
    /\ \E ok \in BOOLEAN :
         IF ok /\ wsVendor # NoDir
         THEN /\ layerVendor' = FsCopy(wsVendor, layerVendor)
              /\ trace' = trace \o <<CopyOf(ComposerPackagesLayerPath, "ok")>>
              /\ pc' = "sbom"
              /\ UNCHANGED result
         ELSE /\ Fail("fs.Copy")
              /\ trace' = trace \o <<CopyOf(ComposerPackagesLayerPath, "error")>>
              /\ UNCHANGED layerVendor
    /\ UNCHANGED <<buildNo, in, store, layer, wsVendor, checksum, route,
                   runOnCache, path, phpIni, extFile, last, buffer>>

\* cache-hit branch: the workspace's dependency directory is replaced by a
\* copy of the layer's
HitCopy ==
    /\ pc = "hitCopy"
    /\ \E io \in {"ok", "existsError", "removeError", "copyError"} :
         CASE io = "existsError" ->
                /\ Fail("fs.Exists")
                /\ UNCHANGED <<wsVendor, trace>>
           [] io = "removeError" /\ wsVendor # NoDir ->
                /\ Fail("os.RemoveAll")
                /\ UNCHANGED <<wsVendor, trace>>
           [] io = "ok" /\ layerVendor # NoDir ->
                /\ wsVendor' = ReplaceVendor(layerVendor, wsVendor)
                /\ trace' = trace \o <<CopyOf(WorkingDir, "ok")>>
                /\ pc' = "sbom"
                /\ UNCHANGED result
           [] OTHER ->
                /\ Fail("fs.Copy")
                /\ trace' = trace \o <<CopyOf(WorkingDir, "error")>>
                /\ wsVendor' = NoDir
    /\ UNCHANGED <<buildNo, in, store, layer, layerVendor, checksum, route,
                   runOnCache, path, phpIni, extFile, last, buffer>>

\* fresh-build branch: Reset, the layer types and the new metadata
FreshReset ==
    /\ pc = "freshReset"
    /\ \E ok \in BOOLEAN :
         IF ok
         THEN /\ layer' = FreshLayer(in.launch, in.build, in.Stack, checksum)
              /\ layerVendor' = NoDir
              /\ trace' = trace \o <<ResetOf("composer-packages")>>
              /\ pc' = "freshConfig"
              /\ UNCHANGED result
         ELSE /\ Fail("layer.Reset")
              /\ UNCHANGED <<layer, layerVendor, trace>>
    /\ UNCHANGED <<buildNo, in, store, wsVendor, checksum, route, runOnCache,
                   path, phpIni, extFile, last, buffer>>

\* fresh-build branch: `composer config autoloader-suffix`
FreshConfig ==
    /\ pc = "freshConfig"
    /\ \E outcome \in ExecOutcomes :
         /\ trace' = trace \o <<Execution("config", ComposerPackagesLayerPath,
                                          PackagesHome, outcome)>>
         /\ IF outcome = "ok"
            THEN pc' = "freshInstall" /\ UNCHANGED result
            ELSE Fail("composer config")
    /\ UNCHANGED <<buildNo, in, store, layer, layerVendor, wsVendor, checksum,
                   route, runOnCache, path, phpIni, extFile, last, buffer>>

\* variant: BP_RUN_COMPOSER_INSTALL switches the install off here too
FreshInstallUnlessSwitchedOff ==
    /\ pc = "freshInstall"
    /\ IF in.override \in ParseBoolFalse
       THEN /\ pc' = "freshCopy"
            /\ UNCHANGED <<wsVendor, trace, result>>
       ELSE \E outcome \in ExecOutcomes :
              /\ trace' = trace \o <<Execution("install", WorkingDir, PackagesHome, outcome)>>
              /\ IF outcome = "ok"
                 THEN /\ wsVendor' = Installed(in.lock, buildNo)
                      /\ pc' = "freshCopy"
                      /\ UNCHANGED result
                 ELSE /\ Fail("composer install")
                      /\ UNCHANGED wsVendor
    /\ UNCHANGED <<buildNo, in, store, layer, layerVendor, checksum, route,
                   runOnCache, path, phpIni, extFile, last, buffer>>

\* variant: an install that failed is tried again
FreshInstallRetrying ==
    /\ pc = "freshInstall"
    /\ \E outcome \in ExecOutcomes :
         /\ trace' = trace \o <<Execution("install", WorkingDir, PackagesHome, outcome)>>
         /\ IF outcome = "ok"
            THEN /\ wsVendor' = Installed(in.lock, buildNo)
                 /\ pc' = "freshCopy"
            ELSE UNCHANGED <<wsVendor, pc>>
    /\ UNCHANGED <<buildNo, in, store, layer, layerVendor, checksum, route,
                   runOnCache, path, phpIni, extFile, last, buffer, result>>

\* fresh-build branch: `composer install` into the workspace
FreshInstall ==
    /\ pc = "freshInstall"
    /\ \E outcome \in ExecOutcomes :
         /\ trace' = trace \o <<Execution("install", WorkingDir, PackagesHome, outcome)>>
         /\ IF outcome = "ok"
            THEN /\ wsVendor' = Installed(in.lock, buildNo)
                 /\ pc' = "freshCopy"
                 /\ UNCHANGED result
            ELSE /\ Fail("composer install")
                 /\ UNCHANGED wsVendor
    /\ UNCHANGED <<buildNo, in, store, layer, layerVendor, checksum, route,
                   runOnCache, path, phpIni, extFile, last, buffer>>

\* fresh-build branch: the workspace's dependency directory is copied into
\* the layer
FreshCopy ==
    /\ pc = "freshCopy"
    /\ \E ok \in BOOLEAN :
         IF ok /\ wsVendor # NoDir
         THEN /\ layerVendor' = FsCopy(wsVendor, layerVendor)
              /\ trace' = trace \o <<CopyOf(ComposerPackagesLayerPath, "ok")>>
              /\ pc' = "sbom"
              /\ UNCHANGED result
         ELSE /\ Fail("fs.Copy")
              /\ trace' = trace \o <<CopyOf(ComposerPackagesLayerPath, "error")>>
              /\ UNCHANGED layerVendor
    /\ UNCHANGED <<buildNo, in, store, layer, wsVendor, checksum, route,
                   runOnCache, path, phpIni, extFile, last, buffer>>

\* Build: SBOM generation and formatting
GenerateSBOM ==
    /\ pc = "sbom"
    /\ \E outcome \in {"ok", "generateError", "formatError"} :
         IF outcome = "ok"
         THEN pc' = "checkPlatformReqs" /\ UNCHANGED result
         ELSE Fail(outcome)
    /\ UNCHANGED <<buildNo, in, store, layer, layerVendor, wsVendor, checksum,
                   route, runOnCache, path, phpIni, extFile, trace, last, buffer>>

\* ------------------------------------------------ check-platform-reqs output
\* A line of output is a string: here the sequence of its pieces, each a
\* whitespace character or a word, a word possibly carrying the prefix "ext-".
Space == [ws |-> TRUE, ext |-> FALSE, word |-> " "]
Tab == [ws |-> TRUE, ext |-> FALSE, word |-> "\t"]
Word(w) == [ws |-> FALSE, ext |-> FALSE, word |-> w]
Ext(w) == [ws |-> FALSE, ext |-> TRUE, word |-> w]
\* the string made of one word
Name(w) == <<Word(w)>>

\* strings.TrimSpace
RECURSIVE TrimLeft(_)
TrimLeft(str) ==
    IF str # <<>> /\ Head(str).ws THEN TrimLeft(Tail(str)) ELSE str
RECURSIVE TrimRight(_)
TrimRight(str) ==
    IF str # <<>> /\ str[Len(str)].ws
    THEN TrimRight(SubSeq(str, 1, Len(str) - 1)) ELSE str
TrimSpace(str) == TrimRight(TrimLeft(str))

\* strings.Split(str, " "): one chunk more than there are spaces
RECURSIVE SplitOnSpace(_)
SplitOnSpace(str) ==
    IF str = <<>> THEN << <<>> >>
    ELSE IF Head(str) = Space
         THEN << <<>> >> \o SplitOnSpace(Tail(str))
         ELSE LET rest == SplitOnSpace(Tail(str))
              IN  << <<Head(str)>> \o Head(rest) >> \o Tail(rest)

\* strings.TrimPrefix(chunk, "ext-")
TrimPrefixExt(chunk) ==
    IF chunk # <<>> /\ Head(chunk).ext
    THEN (IF Head(chunk).word = "" THEN <<>> ELSE Name(Head(chunk).word)) \o Tail(chunk)
    ELSE chunk

EmptyLine == <<>>
ReqLine(first, status) == <<first, Space, Space, Word("*"), Space, Word(status)>>

\* variant: the platform itself is reported like an extension
ReportsMissingAnyName(extensionName, extensionStatus) ==
    extensionStatus = Name("missing")

\* The test runCheckPlatformReqs makes on a line's name and status.
ReportsMissing(extensionName, extensionStatus) ==
    /\ extensionName # Name("php")
    /\ extensionName # Name("php-64bit")
    /\ extensionStatus = Name("missing")

\* The extensions runCheckPlatformReqs collects from the captured output.
RECURSIVE MissingExtensions(_)
MissingExtensions(lines) ==
    IF lines = <<>> THEN <<>>
    ELSE LET chunks == SplitOnSpace(TrimSpace(Head(lines)))
             extensionName == TrimPrefixExt(TrimSpace(chunks[1]))
             extensionStatus == TrimSpace(chunks[Len(chunks)])
         IN  (IF ReportsMissing(extensionName, extensionStatus)
              THEN <<extensionName>> ELSE <<>>)
             \o MissingExtensions(Tail(lines))

\* variant: only what the output reports is listed
ExtensionsWithoutBaseline(lines) == MissingExtensions(lines)

Extensions(lines) == <<Name(opensslExtension)>> \o MissingExtensions(lines)

\* fmt.Sprintf("extension = %s.so\n", extension)
Directive(extension) == [key |-> "extension", value |-> extension \o Name(".so")]
\* the content of composer-extensions.ini
ExtensionsIni(extensions) ==
    [i \in 1..Len(extensions) |-> Directive(extensions[i])]

Outputs ==
    { <<EmptyLine>>,
      <<ReqLine(Ext("mbstring"), "missing"), ReqLine(Word("php"), "success"),
        ReqLine(Ext("openssl"), "success"), EmptyLine>> }

\* Lines the tool can print, and lines that only resemble them.
Lines ==
    { EmptyLine,
      ReqLine(Ext("mbstring"), "missing"),
      ReqLine(Ext("openssl"), "success"),
      ReqLine(Word("php"), "missing"),
      ReqLine(Word("php-64bit"), "missing"),
      <<Space, Ext("zip"), Space, Space, Word("missing"), Tab>>,
      <<Ext("gd"), Tab, Word("missing")>>,
      <<Word("missing")>> }
AllOutputs == UNION { [1..n -> Lines] : n \in 1..MaxLines }

\* variant: exit code 2 is an error like any other
CheckPlatformReqsFatalOnAnyError(outcome) == outcome # "ok"

\* Which results of `composer check-platform-reqs` make runCheckPlatformReqs
\* return the error: all but exit code 2.
CheckPlatformReqsFatal(outcome) == outcome # "ok" /\ outcome # "exit2"

\* runCheckPlatformReqs, and Build's check of its error; `outputs` is what
\* the tool may print.
\* Its Env adds no COMPOSER_HOME to os.Environ(): the tool's home is the
\* ambient one.
CheckPlatformReqs(outputs) ==
    /\ pc = "checkPlatformReqs"
    /\ \E outcome \in ExecOutcomes, output \in outputs, io \in {"ok", "mkdirError", "writeError"} :
         /\ trace' = trace \o
                (<<Execution("check-platform-reqs", WorkingDir, AmbientHome, outcome)>>
                 \o IF ~CheckPlatformReqsFatal(outcome) /\ io = "ok"
                    THEN <<WriteOf("composer-extensions.ini")>> ELSE <<>>)
         /\ IF CheckPlatformReqsFatal(outcome)
            THEN /\ Fail("composer check-platform-reqs")
                 /\ UNCHANGED <<extFile, buffer>>
            ELSE /\ buffer' = output
                 /\ IF io # "ok"
                    THEN /\ Fail(io)
                         /\ UNCHANGED extFile
                    ELSE /\ extFile' = ExtensionsIni(Extensions(output))
                         /\ pc' = "return"
                         /\ UNCHANGED result
    /\ UNCHANGED <<buildNo, in, store, layer, layerVendor, wsVendor, checksum,
                   route, runOnCache, path, phpIni, last>>

RunCheckPlatformReqs == CheckPlatformReqs(Outputs)

\* variant: the layer's metadata is not kept
PersistedWithoutMetadata(l, dir) ==
    [Metadata |-> NoMetadata, Launch |-> l.Launch, Build |-> l.Build,
     Cache |-> l.Cache, vendor |-> dir]

\* What the layer store keeps of a layer the build returned.
Persisted(l, dir) ==
    IF l.Cache
    THEN [Metadata |-> l.Metadata, Launch |-> l.Launch, Build |-> l.Build,
          Cache |-> l.Cache, vendor |-> dir]
    ELSE EmptyStore

\* Build returns its result; the returned layer is what the next build gets.
Return ==
    /\ pc = "return"
    /\ pc' = "returned"
    /\ result' = Success(layer)
    /\ store' = Persisted(layer, layerVendor)
    /\ last' = [no |-> buildNo, lock |-> in.lock, Stack |-> in.Stack, route |-> route,
                Metadata |-> layer.Metadata, vendor |-> layerVendor]
    /\ UNCHANGED <<buildNo, in, layer, layerVendor, wsVendor, checksum, route,
                   runOnCache, path, phpIni, extFile, trace, buffer>>

\* The build's process ends: its memory and its workspace are gone, the layer
\* store stays.
Exit ==
    /\ pc = "returned"
    /\ pc' = "idle"
    /\ in' = NoInput
    /\ layer' = EmptyLayer
    /\ layerVendor' = NoDir
    /\ wsVendor' = NoDir
    /\ checksum' = ""
    /\ route' = "none"
    /\ runOnCache' = TRUE
    /\ path' = <<AmbientPath>>
    /\ phpIni' = ""
    /\ extFile' = <<>>
    /\ trace' = <<>>
    /\ result' = NoResult
    /\ buffer' = <<>>
    /\ UNCHANGED <<buildNo, store, last>>

Next ==
    \/ StartBuild
    \/ WriteComposerPhpIni
    \/ RunComposerGlobalIfRequired
    \/ Decide
    \/ HitParseOverride
    \/ HitInstall
    \/ HitCopy
    \/ FreshReset
    \/ FreshConfig
    \/ FreshInstall
    \/ FreshCopy
    \/ GenerateSBOM
    \/ RunCheckPlatformReqs
    \/ Return
    \/ Exit

Spec == Init /\ [][Next]_vars

\* ------------------------------------------------- the diagnostics in detail
\* The same build, with plain inputs and an empty store to begin with, and
\* with every output of check-platform-reqs up to MaxLines lines.
PlainInputs ==
    { i \in Inputs : /\ ~i.launch /\ ~i.build /\ ~i.global /\ ~i.vendored
                     /\ i.override = Absent /\ i.Stack = "S1" }

StartPlainBuild == Start(PlainInputs)

RunCheckPlatformReqsOnAnyOutput == CheckPlatformReqs(AllOutputs)

InitReqs == Init /\ store = EmptyStore

NextReqs ==
    \/ StartPlainBuild
    \/ WriteComposerPhpIni
    \/ RunComposerGlobalIfRequired
    \/ Decide
    \/ HitParseOverride
    \/ HitInstall
    \/ HitCopy
    \/ FreshReset
    \/ FreshConfig
    \/ FreshInstall
    \/ FreshCopy
    \/ GenerateSBOM
    \/ RunCheckPlatformReqsOnAnyOutput
    \/ Return
    \/ Exit

SpecReqs == InitReqs /\ [][NextReqs]_vars

(***************************************************************************)
(* Properties                                                              *)
(***************************************************************************)
PackagesLayer == "composer-packages"
\* The running build has taken its branch and has not yet handed its layer
\* to the store, so `store` is still what the build found.
Decided == route # "none" /\ result.status # "ok"
StoredShaEquals ==
    MapHas(store.Metadata, ShaKey) /\ store.Metadata[ShaKey] = Str(Sum(in.lock))
StoredStackEquals ==
    MapHas(store.Metadata, StackKey) /\ store.Metadata[StackKey] = Str(in.Stack)
Malformed(m) == ~AssertStringOk(m, StackKey) \/ ~AssertStringOk(m, ShaKey)
OverrideTrue == in.override = Absent \/ in.override \in ParseBoolTrue
OverrideFalse == in.override \in ParseBoolFalse
OverrideInvalid == in.override # Absent /\ in.override \notin ParseBoolTrue \cup ParseBoolFalse
Succeeded(cmd) ==
    \E i \in 1..Len(trace) : IsCmd(trace[i], cmd) /\ trace[i].outcome = "ok"

\* C1: the cache-hit branch is taken iff the stored fingerprint equals the
\* current one and the stored stack equals the current one; whenever exactly
\* one of the two differs the fresh-build branch is taken.
C1_HitIffBothEqual ==
    Decided =>
        /\ (route = "hit") <=> (StoredShaEquals /\ StoredStackEquals)
        /\ (StoredShaEquals # StoredStackEquals) => route = "fresh"

\* C2: stored metadata whose 'stack' or fingerprint entry is absent or not a
\* string is treated as no prior cache: the fresh-build branch is taken and
\* the read of the metadata never panics.
C2_MalformedMetadataIsFresh ==
    /\ result.status # "panic"
    /\ (Decided /\ Malformed(store.Metadata)) => route = "fresh"

\* C3: on a cache hit, once the build is past the re-install step, install
\* has been invoked exactly once if the override is absent or parses to true
\* and not at all if it parses to false.
C3_InstallOnHitFollowsOverride ==
    (route = "hit" /\ pc \notin {"hitParse", "hitInstall"}) =>
        /\ OverrideTrue => CountCmd("install") = 1
        /\ OverrideFalse => CountCmd("install") = 0
C3_Witness ==
    /\ route = "hit" /\ result.status = "ok"
    /\ in.override = "1" /\ CountCmd("install") = 1

\* C4: a build whose override is not a valid boolean executes no subprocess
\* and does not succeed.
C4_InvalidOverrideFailsFast ==
    OverrideInvalid => (Len(Calls) = 0 /\ result.status # "ok")

\* The running build repeats the latest successful build's lockfile and stack.
Rebuild ==
    /\ last.no > 0 /\ last.no < buildNo /\ pc # "idle"
    /\ in.lock = last.lock /\ in.Stack = last.Stack

C6_OnlyExitCode2OfDiagnosticsIsTolerated ==
    \A i \in 1..Len(trace) :
        LET e == trace[i] IN
        e.op = "exec" =>
            /\ (e.cmd \in {"global", "config", "install"} /\ e.outcome # "ok") =>
                   (result.status = "error" /\ i = Len(trace))
            /\ (e.cmd = "check-platform-reqs" /\ e.outcome \in {"exit1", "notExitError"}) =>
                   (result.status = "error" /\ i = Len(trace) /\ extFile = <<>>)
            /\ (e.cmd = "check-platform-reqs" /\ e.outcome = "exit2") =>
                   /\ result.status = "error" => result.err \in {"mkdirError", "writeError"}
                   /\ result.status # "error" =>
                          (pc \in {"return", "returned"} /\ extFile # <<>>)
                   /\ pc = "returned" => result.status \in {"ok", "error"}
C6_Witness ==
    /\ result.status = "ok"
    /\ \E i \in 1..Len(trace) :
           IsCmd(trace[i], "check-platform-reqs") /\ trace[i].outcome = "exit2"
    /\ extFile # <<>>

\* C7: a build that repeats the lockfile and the stack of the latest
\* successful build takes the cache-hit branch, whatever the override, and
\* at every step the stored stack and fingerprint are the ones that build left.
C7_RebuildHitsAndKeepsStamp ==
    [][ (last.no > 0 /\ pc' # "idle"
         /\ in'.lock = last.lock /\ in'.Stack = last.Stack) =>
            /\ route' \in {"none", "hit"}
            /\ store'.Metadata[StackKey] = last.Metadata[StackKey]
            /\ store'.Metadata[ShaKey] = last.Metadata[ShaKey]
            /\ store'.Metadata[ShaKey] = Str(Sum(in'.lock)) ]_vars
C7_Witness ==
    /\ result.status = "ok" /\ route = "hit"
    /\ store.vendor.by >= 1 /\ last.no > store.vendor.by /\ last.no = buildNo

\* C8: a build whose lockfile differs from the one of the latest successful
\* build takes the fresh-build branch; after the reset the layer holds nothing
\* of the earlier content, and when the build succeeds install has run and the
\* store holds the new fingerprint, the current stack and the new content.
C8_ChangedLockfileBuildsAfresh ==
    [][ (last.no > 0 /\ pc' # "idle" /\ in'.lock # last.lock) =>
            /\ route' \in {"none", "fresh"}
            /\ (CountReset(PackagesLayer))' = 1 =>
                   /\ layerVendor' \in {NoDir, Installed(in'.lock, buildNo')}
                   /\ layer'.Metadata = StampedMetadata(in'.Stack, Sum(in'.lock))
            /\ result'.status = "ok" =>
                   /\ (CountReset(PackagesLayer))' = 1
                   /\ (CountCmd("install"))' = 1
                   /\ store'.Metadata = StampedMetadata(in'.Stack, Sum(in'.lock))
                   /\ store'.vendor = Installed(in'.lock, buildNo') ]_vars
C8_Witness ==
    /\ last.no > 0 /\ last.lock = "L1" /\ in.lock = "L2"
    /\ pc = "return" /\ route = "fresh"
    /\ layerVendor = Installed("L2", buildNo)

Stamped == layer.Metadata = StampedMetadata(in.Stack, checksum)

\* C9 (as claimed): on the fresh-build branch the layer carries the new
\* stamp only once install has succeeded, and no layer is returned when
\* config or install failed.
C9_StampOnlyAfterInstall ==
    route = "fresh" =>
        /\ (CountReset(PackagesLayer) = 1 /\ Stamped) => Succeeded("install")
        /\ (\E i \in 1..Len(trace) : trace[i].op = "exec" /\ trace[i].outcome # "ok"
                                     /\ trace[i].cmd \in {"config", "install"})
               => result.layers = <<>>

\* C9 (amended): on the fresh-build branch the layer record carries the new
\* stamp from the reset on, before config and install run; Build returns a
\* layer, and the store changes, only once install has succeeded and its
\* result is in the layer.
C9_StampedLayerOnlyReturnedAfterInstall ==
    [][ route' = "fresh" =>
            /\ (CountReset(PackagesLayer))' = 1 => Stamped'
            /\ (store' # store \/ result'.layers # <<>>) =>
                   /\ Succeeded("install")'
                   /\ layerVendor' = Installed(in'.lock, buildNo')
                   /\ result'.layers = <<layer'>> /\ Stamped' ]_vars
C9_Witness ==
    /\ route = "fresh" /\ result.status = "error" /\ Stamped
    /\ \E i \in 1..Len(trace) : IsCmd(trace[i], "install") /\ trace[i].outcome # "ok"
    /\ result.layers = <<>>

\* C10: the cache-hit branch never resets the layer and never changes its
\* metadata: the layer record carries the metadata the store had, and the
\* store keeps it, for every override value.
C10_HitKeepsMetadata ==
    [][ route' = "hit" =>
            /\ layer'.Metadata = store.Metadata
            /\ store'.Metadata = store.Metadata
            /\ (CountReset(PackagesLayer))' = 0 ]_vars
C10_Witness ==
    /\ route = "hit" /\ result.status = "ok" /\ in.override = "false"
    /\ MapHas(store.Metadata, OtherKey)

CountOp(op, name, outcome) ==
    Cardinality({i \in 1..Len(trace) :
                    trace[i].op = op /\ trace[i].cmd = name /\ trace[i].outcome = outcome})
AfterHitCopy == route = "hit" /\ (pc \in {"sbom", "checkPlatformReqs", "return"} \/ result.status = "ok")

\* C11: once the cache-hit branch has returned, and so after every successful
\* cache-hit build, the workspace's dependency directory holds what the
\* layer's vendor directory holds, whatever BP_RUN_COMPOSER_INSTALL says and
\* whatever the workspace held before: exactly one copy into the workspace
\* was made, and nothing of a vendored or re-installed directory is left.
C11_WorkspaceEqualsLayerAfterHit ==
    AfterHitCopy =>
        /\ wsVendor = layerVendor
        /\ wsVendor \notin {NoDir, UserVendored, Installed(in.lock, buildNo)}
        /\ CountOp("copy", WorkingDir, "ok") = 1
        /\ result.status = "ok" => wsVendor = store.vendor
C11_Witness ==
    /\ route = "hit" /\ result.status = "ok"
    /\ in.vendored /\ in.override = "false"
    /\ wsVendor = layerVendor
C11_WitnessReinstalled ==
    /\ route = "hit" /\ result.status = "ok"
    /\ in.override = Absent /\ CountCmd("install") = 1
    /\ wsVendor = layerVendor

Before(cmd, outcomes, i) ==
    \E j \in 1..(i - 1) : IsCmd(trace[j], cmd) /\ trace[j].outcome \in outcomes
Diagnosed(i) == i \in 1..Len(trace) /\ IsCmd(trace[i], "check-platform-reqs")

\* C12 (as claimed): whenever check-platform-reqs has been executed in a
\* build, an install has been executed and has succeeded earlier in that
\* build.
C12_DiagnosticsOnlyAfterInstall ==
    \A i \in 1..Len(trace) : Diagnosed(i) => Before("install", {"ok"}, i)

\* C12 (amended): whenever check-platform-reqs has been executed in a build,
\* no install of that build has failed, and an install has succeeded earlier
\* in that build unless the build is a cache hit with BP_RUN_COMPOSER_INSTALL
\* parsing to false, in which case no install was executed at all.
C12_DiagnosticsOnlyAfterInstallUnlessSwitchedOff ==
    \A i \in 1..Len(trace) :
        Diagnosed(i) =>
            /\ ~Before("install", ExecOutcomes \ {"ok"}, i)
            /\ \/ Before("install", {"ok"}, i)
               \/ route = "hit" /\ OverrideFalse /\ CountCmd("install") = 0
            /\ OverrideFalse /\ route = "hit" => CountCmd("install") = 0
C12_Witness ==
    /\ result.status = "ok" /\ route = "hit" /\ in.override = "false"
    /\ CountCmd("check-platform-reqs") = 1 /\ CountCmd("install") = 0

\* The sub-commands that come after the phase an error is returned from.
LaterCmds(err) ==
    CASE err \in {"write composer-php.ini", "global layers.Get", "global layer.Reset"} ->
            {"global", "config", "install", "check-platform-reqs"}
      [] err \in {"composer global require", "layers.Get", "calculator.Sum",
                  "error when parsing env var", "layer.Reset"} ->
            {"config", "install", "check-platform-reqs"}
      [] err = "composer config" -> {"install", "check-platform-reqs"}
      [] OTHER -> {"check-platform-reqs"}
\* The sub-command whose failure an error reports, if it reports one.
FailedCmd(err) ==
    CASE err = "composer global require" -> "global"
      [] err = "composer config" -> "config"
      [] err = "composer install" -> "install"
      [] err = "composer check-platform-reqs" -> "check-platform-reqs"
      [] OTHER -> "none"
Aborted ==
    /\ pc = "returned"
    /\ result.layers = <<>>
    /\ extFile = <<>>
    /\ CountOp("write", "composer-extensions.ini", "ok") = 0
    /\ \A i \in 1..Len(trace) :
          IsExec(trace[i]) /\ trace[i].outcome \notin {"ok", "exit2"}
              => i = Len(trace) /\ trace[i].cmd = FailedCmd(result.err)
    /\ \A cmd \in LaterCmds(result.err) :
          IF cmd = FailedCmd(result.err) \/ result.err \in {"mkdirError", "writeError"}
          THEN CountCmd(cmd) = 1 /\ IsCmd(trace[Len(trace)], cmd)
          ELSE CountCmd(cmd) = 0

\* C13: when a phase of a build returns an error, Build returns that error
\* with an empty result at once: no sub-command of a later phase has been
\* executed, the failed sub-command is the last one executed, the extension
\* file has not been written, and nothing more happens in that build: the
\* next step is the end of the process, with the layer store as it was.
C13_FailureAbortsTheBuild ==
    [][ /\ result'.status = "error" => Aborted'
        /\ result.status = "error" => (pc' = "idle" /\ trace' = <<>> /\ store' = store)
      ]_vars
C13_Witness ==
    /\ result.status = "error" /\ result.err = "composer config"
    /\ in.global /\ CountCmd("global") = 1
    /\ CountCmd("install") = 0 /\ CountCmd("check-platform-reqs") = 0

\* The extension file has been written from the captured output.
Written == CountOp("write", "composer-extensions.ini", "ok") = 1
\* The names the written file lists, the baseline entry left aside.
Listed ==
    [i \in 1..(Len(extFile) - 1) |->
        SubSeq(extFile[i + 1].value, 1, Len(extFile[i + 1].value) - 1)]
Times(name, seq) == Cardinality({i \in 1..Len(seq) : seq[i] = name})
\* The tokens of a line delimited by whitespace of any kind.
RECURSIVE Tokens(_)
Tokens(str) ==
    IF str = <<>> THEN <<>>
    ELSE IF Head(str).ws THEN Tokens(Tail(str))
         ELSE LET rest == Tokens(Tail(str))
              IN  IF Len(str) > 1 /\ ~str[2].ws
                  THEN << <<Head(str)>> \o Head(rest) >> \o Tail(rest)
                  ELSE << <<Head(str)>> >> \o rest
TokenName(line) == TrimPrefixExt(Tokens(line)[1])
TokenMissing(line) ==
    /\ Tokens(line) # <<>>
    /\ Tokens(line)[Len(Tokens(line))] = Name("missing")
    /\ TokenName(line) \notin {Name("php"), Name("php-64bit")}
\* The chunks of a trimmed line delimited by single spaces.
Chunks(line) == SplitOnSpace(TrimSpace(line))
ChunkName(line) == TrimPrefixExt(TrimSpace(Chunks(line)[1]))
ChunkMissing(line) ==
    /\ TrimSpace(Chunks(line)[Len(Chunks(line))]) = Name("missing")
    /\ ChunkName(line) \notin {Name("php"), Name("php-64bit")}
NamesOf(lines) ==
    {TokenName(lines[i]) : i \in {j \in 1..Len(lines) : Tokens(lines[j]) # <<>>}}
        \cup {ChunkName(lines[i]) : i \in 1..Len(lines)}
        \cup {Listed[i] : i \in 1..Len(Listed)}

\* C14 (as claimed): a name is listed as many times as there are lines of the
\* output whose first whitespace-delimited token, the prefix "ext-" stripped,
\* is that name, whose last token is "missing" and whose name is neither
\* "php" nor "php-64bit"; no other line adds anything.
C14_ListedIffLastTokenMissing ==
    Written =>
        \A name \in NamesOf(buffer) :
            Times(name, Listed) =
                Cardinality({i \in 1..Len(buffer) :
                                TokenMissing(buffer[i]) /\ TokenName(buffer[i]) = name})

\* C14 (amended): a name is listed as many times as there are lines of the
\* output whose first chunk, the line trimmed and split at single spaces, the
\* chunk trimmed and the prefix "ext-" stripped, is that name, whose last
\* chunk trimmed is "missing" and whose name is neither "php" nor
\* "php-64bit"; no other line adds anything.
C14_ListedIffLastChunkMissing ==
    Written =>
        \A name \in NamesOf(buffer) :
            Times(name, Listed) =
                Cardinality({i \in 1..Len(buffer) :
                                ChunkMissing(buffer[i]) /\ ChunkName(buffer[i]) = name})
C14_Witness ==
    /\ Written /\ result.status = "ok"
    /\ buffer = <<ReqLine(Word("php"), "missing"), <<Ext("gd"), Tab, Word("missing")>> >>
    /\ Listed = <<>>
C14_WitnessListed ==
    /\ Written /\ result.status = "ok"
    /\ buffer = <<ReqLine(Ext("openssl"), "success"),
                  <<Space, Ext("zip"), Space, Space, Word("missing"), Tab>> >>
    /\ Listed = <<Name("zip")>>

\* the line of the file that loads an extension
Loads(name) == [key |-> "extension", value |-> name \o <<Word(".so")>>]
MissingLines == SelectSeq(buffer, ChunkMissing)

\* C15: when check-platform-reqs ended with exit code 0 or 2 and the file
\* could be written, the file holds one line "extension = <name>.so" per
\* entry: first the one for openssl, also when the output reports nothing
\* missing, then one per reporting line of the output, in the order of the
\* lines, a name reported twice being written twice.
C15_FileListsBaselineThenMissingInOrder ==
    /\ Written =>
          /\ \E i \in 1..Len(trace) :
                IsCmd(trace[i], "check-platform-reqs") /\ trace[i].outcome \in {"ok", "exit2"}
          /\ Len(extFile) = 1 + Len(MissingLines)
          /\ extFile[1] = Loads(<<Word("openssl")>>)
          /\ \A k \in 1..Len(MissingLines) :
                extFile[k + 1] = Loads(ChunkName(MissingLines[k]))
    /\ (pc = "return" \/ result.status = "ok") => Written
    /\ ~Written => extFile = <<>>
C15_Witness ==
    /\ Written /\ result.status = "ok"
    /\ buffer = <<ReqLine(Ext("mbstring"), "missing"), ReqLine(Ext("mbstring"), "missing")>>
    /\ extFile = <<Loads(<<Word("openssl")>>), Loads(<<Word("mbstring")>>),
                   Loads(<<Word("mbstring")>>)>>
C15_WitnessBaselineOnly ==
    /\ Written /\ result.status = "ok"
    /\ buffer = <<EmptyLine>>
    /\ extFile = <<Loads(<<Word("openssl")>>)>>

\* C16: every sub-command executed in a build (global require, config,
\* install, check-platform-reqs) is given a COMPOSER_HOME inside the layer it
\* works for, never the ambient one.
C16_HomeAlwaysPinned ==
    \A i \in 1..Len(trace) :
        IsExec(trace[i]) =>
            /\ trace[i].home \in {ComposerGlobalLayerPath, PackagesHome}
            /\ trace[i].home # AmbientHome

GlobalLayer == "composer-global"
GlobalUntouched ==
    /\ CountCmd("global") = 0
    /\ CountGet(GlobalLayer) = 0
    /\ CountReset(GlobalLayer) = 0
    /\ path = <<AmbientPath>>
    /\ \A i \in 1..Len(trace) : IsExec(trace[i]) => trace[i].path = <<AmbientPath>>
    /\ result.err \notin {"global layers.Get", "global layer.Reset", "composer global require"}

\* C17: in a build without BP_COMPOSER_INSTALL_GLOBAL the global step does
\* nothing and does not fail: the build goes on with the install phase, no
\* global require is executed, the global layer is neither fetched nor reset,
\* and the search path stays the ambient one for every later sub-command.
C17_NoGlobalPackagesIsNoOp ==
    [][ /\ (pc = "global" /\ ~in.global) =>
              /\ pc' = "install"
              /\ UNCHANGED <<trace, path, result, store, layer, layerVendor, wsVendor>>
        /\ (pc' # "idle" /\ ~in'.global) => GlobalUntouched'
      ]_vars
C17_Witness ==
    /\ ~in.global /\ result.status = "ok"
    /\ CountCmd("install") = 1 /\ CountCmd("check-platform-reqs") = 1
    /\ GlobalUntouched

\* The phase of Build an event of the trace belongs to: 0 the ini file, 1 the
\* global packages, 2 the cache decision, 3 config and install, 4 the copy
\* of the dependency directory, 5 the diagnostics.
Phase(e) ==
    CASE e.cmd \in {"composer-php-ini", ComposerPhpIniFile} -> 0
      [] e.cmd \in {GlobalLayer, "global"} -> 1
      [] e.op = "get" /\ e.cmd = PackagesLayer -> 2
      [] e.op = "reset" /\ e.cmd = PackagesLayer -> 3
      [] e.op = "exec" /\ e.cmd \in {"config", "install"} -> 3
      [] e.op = "copy" -> 4
      [] OTHER -> 5
\* The phases that may directly follow a phase: the global packages are left
\* out when not asked for, config and install on a cache hit with the
\* install switched off; no other phase is.
Follows(p, q) ==
    \/ q = p
    \/ q = p + 1
    \/ p = 0 /\ q = 2 /\ ~in.global
    \/ p = 2 /\ q = 4 /\ route = "hit" /\ ~runOnCache

\* C18: what a build does, it does in the order ini file, global packages,
\* cache decision, config and install, copy of the dependency directory,
\* diagnostics: it starts with the ini file, nothing of an earlier phase
\* comes after something of a later one, no phase is left out before a later
\* one (but the global packages when not asked for, and the install when
\* switched off on a cache hit), and a global require that was asked for has
\* succeeded before every config, install and check-platform-reqs.
C18_PhasesInOrder ==
    LET phase == [i \in 1..Len(trace) |-> Phase(trace[i])]
        globalOk == Succeeded("global")
    IN  /\ trace # <<>> => phase[1] = 0
        /\ \A i \in 1..(Len(trace) - 1) :
              /\ Follows(phase[i], phase[i + 1])
              /\ phase[i] < phase[i + 1] => trace[i].outcome = "ok"
        /\ \A i \in 1..Len(trace) :
              (IsExec(trace[i]) /\ trace[i].cmd # "global" /\ in.global) =>
                  (phase[i] > 1 /\ globalOk)
C18_Witness ==
    /\ result.status = "ok" /\ in.global /\ route = "fresh"
    /\ CountCmd("global") = 1 /\ CountCmd("config") = 1 /\ CountCmd("install") = 1
    /\ CountOp("copy", ComposerPackagesLayerPath, "ok") = 1
    /\ CountCmd("check-platform-reqs") = 1

AfterFreshCopy == route = "fresh" /\ (pc \in {"sbom", "checkPlatformReqs", "return"} \/ result.status = "ok")

\* C19: on the fresh-build branch config is executed at most once, and
\* exactly once and with success before any install; the dependency
\* directory is copied, into the layer, only after an install that
\* succeeded; and once the branch has returned, and so after a successful
\* fresh build, the layer's vendor directory holds what the workspace's
\* holds: what this build's install produced.
C19_FreshConfigInstallCopy ==
    route = "fresh" =>
        /\ CountCmd("config") <= 1 /\ CountCmd("install") <= 1
        /\ \A i \in 1..Len(trace) :
              /\ IsCmd(trace[i], "install") =>
                    (i > 1 /\ IsCmd(trace[i - 1], "config") /\ trace[i - 1].outcome = "ok")
              /\ trace[i].op = "copy" =>
                    /\ trace[i].cmd = ComposerPackagesLayerPath
                    /\ i > 1 /\ IsCmd(trace[i - 1], "install") /\ trace[i - 1].outcome = "ok"
        /\ AfterFreshCopy =>
              /\ layerVendor = wsVendor
              /\ layerVendor = Installed(in.lock, buildNo)
              /\ CountCmd("config") = 1 /\ CountCmd("install") = 1
              /\ CountOp("copy", ComposerPackagesLayerPath, "ok") = 1
C19_Witness ==
    /\ route = "fresh" /\ result.status = "ok" /\ in.vendored
    /\ store.vendor = Installed(in.lock, buildNo) /\ wsVendor = store.vendor
    /\ CountCmd("config") = 1 /\ CountCmd("install") = 1

PrefixedPath == <<GlobalBin, AmbientPath>>

\* C20: a global require is executed right after the reset of the global
\* layer; when it succeeds, every sub-command executed after it in that
\* build (config, install, check-platform-reqs) is given a search path that
\* starts with the global layer's vendor/bin directory; when it fails, it is
\* the last sub-command of the build and the build returns its error.
C20_GlobalBinOnPathOfLaterCommands ==
    \A i \in 1..Len(trace) :
        IsCmd(trace[i], "global") =>
            /\ in.global
            /\ i > 1 /\ trace[i - 1].op = "reset" /\ trace[i - 1].cmd = GlobalLayer
            /\ trace[i].outcome = "ok" =>
                  /\ path = PrefixedPath
                  /\ \A k \in (i + 1)..Len(trace) :
                        IsExec(trace[k]) =>
                            /\ trace[k].cmd \in {"config", "install", "check-platform-reqs"}
                            /\ trace[k].path = PrefixedPath
            /\ trace[i].outcome # "ok" =>
                  /\ i = Len(trace)
                  /\ result = Failure("composer global require")
C20_Witness ==
    /\ in.global /\ result.status = "ok" /\ route = "fresh"
    /\ \E i, j, k \in 1..Len(trace) :
          /\ IsCmd(trace[i], "config") /\ trace[i].path = PrefixedPath
          /\ IsCmd(trace[j], "install") /\ trace[j].path = PrefixedPath
          /\ IsCmd(trace[k], "check-platform-reqs") /\ trace[k].path = PrefixedPath

\* runComposerInstall has returned a layer.
LayerReturned == AfterHitCopy \/ AfterFreshCopy

C22_FlagsAreNotPartOfTheKey ==
    /\ (Decided /\ route \in {"hit", "fresh"}) =>
          ((route = "hit") <=> (StoredShaEquals /\ StoredStackEquals))
    /\ LayerReturned => (layer.Launch = in.launch /\ layer.Build = in.build)
    /\ result.status = "ok" =>
          /\ result.layers[1].Launch = in.launch /\ result.layers[1].Build = in.build
          /\ store.Launch = in.launch /\ store.Build = in.build
C22_Witness ==
    /\ pc = "return" /\ route = "hit" /\ last.no > 0
    /\ store.Launch /\ ~store.Build /\ ~in.launch /\ in.build
    /\ ~layer.Launch /\ layer.Build

SubCommands == {"global", "config", "install", "check-platform-reqs"}

\* C23: within one build each of the four sub-commands is executed at most
\* once, whether it succeeded or failed; after a failure nothing is executed
\* any more.
C23_NoRetry ==
    LET calls == Calls
    IN  /\ Cardinality({calls[i].cmd : i \in 1..Len(calls)}) = Len(calls)
        /\ \A i \in 1..Len(calls) :
              /\ calls[i].cmd \in SubCommands
              /\ calls[i].outcome \notin {"ok", "exit2"} => i = Len(calls)
C23_Witness ==
    /\ result = Failure("composer install") /\ route = "fresh"
    /\ CountCmd("install") = 1 /\ CountCmd("config") = 1
    /\ trace[Len(trace)].outcome = "exit1"

\* C24: on the cache-hit branch nothing writes the layer's vendor directory:
\* throughout the build, the re-run install included, it holds what the
\* store held when the build started, which an earlier build produced, and
\* the store keeps it; after a fresh build followed by cache hits it is what
\* that fresh build's install produced.
C24_HitLeavesLayerVendorAlone ==
    route = "hit" =>
        /\ layerVendor = store.vendor
        /\ layerVendor # NoDir /\ layerVendor # UserVendored
        /\ layerVendor.by < buildNo
        /\ last.no > 0 => layerVendor = last.vendor
        /\ (last.no > 0 /\ last.route = "fresh") =>
              layerVendor = Installed(last.lock, last.no)
        /\ \A i \in 1..Len(trace) :
              trace[i].op = "copy" => trace[i].cmd = WorkingDir
C24_Witness ==
    /\ route = "hit" /\ result.status = "ok" /\ last.no = buildNo
    /\ CountCmd("install") = 1
    /\ store.vendor = Installed(in.lock, buildNo - 1)
    /\ wsVendor = store.vendor

IniLayer == "composer-php-ini"

\* C25: whatever a build does starts with the composer-php-ini layer being
\* fetched and reset and composer-php.ini being written into it, once; every
\* sub-command comes after that and is given that file's path as PHPRC.
C25_IniWrittenFirstAndIsPhprc ==
    /\ trace # <<>> =>
          /\ Len(trace) >= 3
          /\ trace[1] = GetOf(IniLayer)
          /\ trace[2] = ResetOf(IniLayer)
          /\ trace[3] = WriteOf(ComposerPhpIniFile)
          /\ phpIni = ComposerPhpIniFile
    /\ CountOp("write", ComposerPhpIniFile, "ok") <= 1
    /\ CountReset(IniLayer) <= 1
    /\ \A i \in 1..Len(trace) :
          IsExec(trace[i]) => (i > 3 /\ trace[i].phprc = ComposerPhpIniFile)
C25_Witness ==
    /\ result.status = "ok" /\ in.global /\ route = "fresh"
    /\ trace[3] = WriteOf(ComposerPhpIniFile)
    /\ Len(Calls) = 4
    /\ \A i \in 1..4 : Calls[i].phprc = ComposerPhpIniFile

\* C26: the fingerprint is the digest of the lockfile and nothing else; a
\* build with the lockfile and the stack of the latest successful build, if
\* it gets as far as the decision, takes the cache-hit branch whatever else
\* differs: a dependency directory in the workspace, the global packages,
\* BP_RUN_COMPOSER_INSTALL, the layer types.
C26_OnlyLockfileAndStackDecide ==
    /\ checksum # "" => checksum = Sum(in.lock)
    /\ (Rebuild /\ route # "none") => route = "hit"
C26_Witness ==
    /\ Rebuild /\ pc = "return" /\ route = "hit" /\ last.route = "fresh"
    /\ in.vendored /\ in.global /\ in.override = "false"
    /\ in.launch # store.Launch /\ in.build # store.Build

PastFreshConfig ==
    \/ pc \in {"freshInstall", "freshCopy"}
    \/ AfterFreshCopy
    \/ result.status = "error" /\ result.err # "layer.Reset"

\* C27: the composer-packages layer is reset, and config is executed, in
\* the builds that take the fresh-build branch and in no other: a build on
\* the cache-hit branch has done neither, and a build on the fresh-build
\* branch that got past the reset and the config has done each once.
C27_ResetAndConfigIffFresh ==
    /\ (CountCmd("config") > 0 \/ CountReset(PackagesLayer) > 0) => route = "fresh"
    /\ route = "hit" => (CountCmd("config") = 0 /\ CountReset(PackagesLayer) = 0)
    /\ (route = "fresh" /\ PastFreshConfig) =>
          /\ CountReset(PackagesLayer) = 1
          /\ CountCmd("config") = 1
          /\ \E i \in 1..(Len(trace) - 1) :
                /\ trace[i] = ResetOf(PackagesLayer)
                /\ IsCmd(trace[i + 1], "config")
C27_Witness ==
    /\ route = "hit" /\ result.status = "ok"
    /\ CountCmd("install") = 1 /\ CountCmd("check-platform-reqs") = 1
    /\ CountCmd("config") = 0 /\ CountReset(PackagesLayer) = 0

OverrideValid == in.override = Absent \/ in.override \in ParseBoolTrue \cup ParseBoolFalse

\* C28: on the fresh-build branch BP_RUN_COMPOSER_INSTALL is not looked at:
\* for every valid value of it (unset, true, false) a build that got past
\* the install has executed install exactly once, with success, and what it
\* produced is in the workspace.
C28_OverrideDoesNotSwitchOffFreshInstall ==
    (route = "fresh" /\ OverrideValid /\ (pc = "freshCopy" \/ AfterFreshCopy)) =>
        /\ CountCmd("install") = 1
        /\ Succeeded("install")
        /\ wsVendor = Installed(in.lock, buildNo)
        /\ runOnCache
C28_Witness ==
    /\ route = "fresh" /\ result.status = "ok" /\ in.override = "false"
    /\ CountCmd("install") = 1
    /\ store.vendor = Installed(in.lock, buildNo)
====
